---------------------------- MODULE Spec2Model ----------------------------
(***************************************************************************)
(* A model of mrt, the media renaming tool (SeaRyanC/mrt).                 *)
(*                                                                         *)
(* Strings are sequences of one-character strings, so that the string      *)
(* functions of the program (split, slice, startsWith, path.dirname, the   *)
(* regular expressions) are computed as the program computes them.         *)
(*                                                                         *)
(* The manifest applier (runWetMode) is modelled over a tree-shaped        *)
(* filesystem of regular files and directories.  Symbolic links,           *)
(* permissions and path aliases ("a/../b", case-insensitive volumes) are   *)
(* outside the model.                                                      *)
(*                                                                         *)
(* The manifest builder (runDryMode) is modelled with one action per       *)
(* parser call, one for the rest of the loop body and one for the write    *)
(* of renames.txt; the answer of the external service is any member of a   *)
(* small set of identities, or nothing.  generateNewPath and the functions *)
(* it calls are operators over paths.                                      *)
(*                                                                         *)
(* Specifications: Spec and SpecManifest (the applier, on a manifest the   *)
(* builder could have written and on a hand-edited one), SpecDry (the      *)
(* builder), SpecCanon (generateNewPath applied twice), SpecConcurrent     *)
(* (the applier next to another process that creates files), and one       *)
(* specification for each group of pure functions, whose initial states    *)
(* draw the input from a finite set and whose actions apply the functions. *)
(***************************************************************************)
EXTENDS Integers, Sequences, FiniteSets, TLC

VARIABLES
    \* ---- manifest applier (runWetMode) ----
    content,        \* text of the manifest file
    fsys,           \* the filesystem: existing path |-> "dir" or a file's content
    fs0,            \* the filesystem before the first run
    pc,             \* position of runWetMode
    run,            \* 1 = first invocation of the applier, 2 = the second one
    renames,        \* the parsed entries
    warnings,       \* number of console.warn calls of the parser
    i,              \* loop index (1-based)
    successCount,
    errorCount,
    outcomes,       \* per attempted entry of this run: [entry, report]
    outcomes1,      \* the outcomes of the first run, kept when the second starts
    ontoExisting,   \* history: some fs.rename succeeded onto an existing path
    ioFault,        \* history: a directory creation or move failed for an
                    \* external reason (permissions, device, ...) in run 1
    \* ---- manifest builder (runDryMode) ----
    files,          \* the input files, as enumerateFiles / readFileList return them
    apiKey,         \* the credential of the external fallback
    disk,           \* the regular files fs.readdir can see
    dpc,            \* position of runDryMode
    fi,             \* loop index (1-based)
    mediaInfo,      \* the identity of the current file, or None
    dryRenames,     \* the entries collected so far
    consulted,      \* history: the parsers called, [file, parser], in order
    manifest,       \* the text written to renames.txt, or None
    \* ---- canonicalization (generateNewPath) ----
    cpc,            \* "input", "once", "twice" or "thrown"
    cInfo,          \* an identity
    cDir,           \* an original directory
    cPath,          \* generateNewPath(cInfo, cDir)
    cAgain,         \* generateNewPath(cInfo, dirname(cPath))
    \* ---- a function of the program applied to an input ----
    epc,            \* which applications have been made
    eIn,            \* the input
    eOut            \* the results, in the order of the applications

wetVars == <<content, fsys, fs0, pc, run, renames, warnings, i, successCount,
             errorCount, outcomes, outcomes1, ontoExisting, ioFault>>

dryVars == <<files, apiKey, disk, dpc, fi, mediaInfo, dryRenames, consulted,
             manifest>>

canonVars == <<cpc, cInfo, cDir, cPath, cAgain>>

evalVars == <<epc, eIn, eOut>>

vars == <<wetVars, dryVars, canonVars, evalVars>>

-----------------------------------------------------------------------------
(* Bounds of the model *)

MaxEntries == 2
MaxLines == 4

-----------------------------------------------------------------------------
(* Strings *)

Slash == "/"
Dot == <<".">>
Empty == <<>>

\* String.prototype.startsWith
StartsWith(s, pre) ==
    /\ Len(pre) <= Len(s)
    /\ SubSeq(s, 1, Len(pre)) = pre

\* String.prototype.slice(n) with n >= 0
SliceFrom(s, n) == SubSeq(s, n + 1, Len(s))

\* white space as String.prototype.trim and \s see it (of the characters used)
IsSpace(c) == c \in {" ", "\t", "\r", "\n"}

\* String.prototype.trim
Trim(s) ==
    LET keep == {k \in 1..Len(s) : ~IsSpace(s[k])}
    IN  IF keep = {} THEN <<>>
        ELSE LET lo == CHOOSE k \in keep : \A m \in keep : k <= m
                 hi == CHOOSE k \in keep : \A m \in keep : k >= m
             IN  SubSeq(s, lo, hi)

\* String.prototype.split(ch) for a one-character separator
RECURSIVE Split(_, _)
Split(s, ch) ==
    LET at == {k \in 1..Len(s) : s[k] = ch}
    IN  IF at = {} THEN <<s>>
        ELSE LET k == CHOOSE x \in at : \A y \in at : x <= y
             IN  <<SubSeq(s, 1, k - 1)>> \o Split(SubSeq(s, k + 1, Len(s)), ch)

\* Array.prototype.join(ch)
RECURSIVE Join(_, _)
Join(parts, ch) ==
    IF Len(parts) = 0 THEN <<>>
    ELSE IF Len(parts) = 1 THEN parts[1]
    ELSE parts[1] \o <<ch>> \o Join(Tail(parts), ch)

\* path.dirname (POSIX): the text before the last slash that is followed by a
\* non-slash character; "." or "/" when there is none
PathDirname(p) ==
    LET n == Len(p)
        hasRoot == n > 0 /\ p[1] = Slash
        \* 0-based indices i >= 1 of a slash with a non-slash somewhere after it
        cand == {k \in 2..n : p[k] = Slash /\ \E j \in (k + 1)..n : p[j] # Slash}
    IN  IF n = 0 THEN Dot
        ELSE IF cand = {} THEN (IF hasRoot THEN <<Slash>> ELSE Dot)
        ELSE LET e == CHOOSE k \in cand : \A m \in cand : k >= m
             IN  IF hasRoot /\ e = 2 THEN <<Slash, Slash>>
                 ELSE SubSeq(p, 1, e - 1)

-----------------------------------------------------------------------------
(* The filesystem the applier acts on *)

\* p is d or lies beneath d
Under(p, d) == p = d \/ StartsWith(p, d \o <<Slash>>)

\* fs.access(p) resolves: the current directory always exists
Exists(fs, p) == p = Dot \/ p \in DOMAIN fs

IsDir(fs, p) == p = Dot \/ (p \in DOMAIN fs /\ fs[p] = "dir")

\* the contents of the regular files of fs
Contents(fs) == {fs[p] : p \in DOMAIN fs} \ {"dir"}

\* d and the directories above it, as far as they are named in d
AncestorsOrSelf(d) ==
    {SubSeq(d, 1, k) : k \in {m \in 1..Len(d) : m = Len(d) \/ d[m + 1] = Slash}}
        \ {Empty}

\* fs.mkdir(d, {recursive: true}): [err |-> "" | "EEXIST" | "ENOTDIR", fs |-> ...]
MkdirP(fs, d) ==
    LET chain == AncestorsOrSelf(d) \ {Dot}
        blocked == {a \in chain : a \in DOMAIN fs /\ fs[a] # "dir"}
        new   == chain \ DOMAIN fs
    IN  IF blocked # {}
        THEN [err |-> IF d \in blocked THEN "EEXIST" ELSE "ENOTDIR", fs |-> fs]
        ELSE [err |-> "",
              fs  |-> [p \in DOMAIN fs \cup new |->
                          IF p \in DOMAIN fs THEN fs[p] ELSE "dir"]]

\* fs.rename(from, to) (rename(2)): [ok, fs, onto]; onto: `to` existed and was
\* replaced.  A file replaces a file, a directory replaces an empty
\* directory; everything beneath a moved directory moves with it.
Rename(fs, from, to) ==
    LET fail == [ok |-> FALSE, fs |-> fs, onto |-> FALSE]
        moved == {p \in DOMAIN fs : Under(p, from)}
        target(p) == to \o SubSeq(p, Len(from) + 1, Len(p))
        kept == {p \in DOMAIN fs : ~Under(p, from) /\ p # to}
        after == [p \in kept \cup {target(q) : q \in moved} |->
                    IF p \in kept THEN fs[p]
                    ELSE fs[CHOOSE q \in moved : target(q) = p]]
    IN  IF from \notin DOMAIN fs \/ to = Empty THEN fail               \* ENOENT
        ELSE IF ~IsDir(fs, PathDirname(to)) THEN fail                  \* ENOENT, ENOTDIR
        ELSE IF from = to THEN [ok |-> TRUE, fs |-> fs, onto |-> TRUE]
        ELSE IF Under(to, from) THEN fail                              \* EINVAL
        ELSE IF to \in DOMAIN fs
        THEN IF fs[from] = "dir" /\ fs[to] # "dir" THEN fail           \* ENOTDIR
             ELSE IF fs[from] # "dir" /\ fs[to] = "dir" THEN fail      \* EISDIR
             ELSE IF fs[to] = "dir" /\ \E p \in DOMAIN fs : p # to /\ Under(p, to)
                  THEN fail                                            \* ENOTEMPTY
             ELSE [ok |-> TRUE, fs |-> after, onto |-> TRUE]
        ELSE [ok |-> TRUE, fs |-> after, onto |-> FALSE]

-----------------------------------------------------------------------------
(* parseRenamesFile *)

None == [some |-> FALSE]
Some(v) == [some |-> TRUE, val |-> v]

NonBlank(line) == Len(Trim(line)) > 0

\* content.split('\n').filter(line => line.trim().length > 0)
ManifestLines(text) == SelectSeq(Split(text, "\n"), NonBlank)

\* a slip: of two consecutive '-' lines the earlier one is kept
ParseLineKeepFirst(st, line) ==
    IF StartsWith(line, <<"-">>)
    THEN IF st.currentFrom.some
         THEN [st EXCEPT !.warnings = @ + 1]
         ELSE [st EXCEPT !.currentFrom = Some(SliceFrom(line, 1))]
    ELSE IF StartsWith(line, <<"+">>)
    THEN IF st.currentFrom.some /\ st.currentFrom.val # Empty
         THEN [st EXCEPT !.renames = Append(@, [from |-> st.currentFrom.val,
                                                  to   |-> SliceFrom(line, 1)]),
                         !.currentFrom = None]
         ELSE [st EXCEPT !.warnings = @ + 1]
    ELSE [st EXCEPT !.warnings = @ + 1]

\* the loop body with the path of each line trimmed
ParseLineTrimmed(st, line) ==
    IF StartsWith(line, <<"-">>)
    THEN [st EXCEPT !.currentFrom = Some(Trim(SliceFrom(line, 1))),
                    !.warnings = IF st.currentFrom.some THEN @ + 1 ELSE @]
    ELSE IF StartsWith(line, <<"+">>)
    THEN IF st.currentFrom.some /\ st.currentFrom.val # Empty
         THEN [st EXCEPT !.renames = Append(@, [from |-> st.currentFrom.val,
                                                  to   |-> Trim(SliceFrom(line, 1))]),
                         !.currentFrom = None]
         ELSE [st EXCEPT !.warnings = @ + 1]
    ELSE [st EXCEPT !.warnings = @ + 1]

\* the body of the loop over the lines; st = [renames, currentFrom, warnings]
ParseLine(st, line) ==
    IF StartsWith(line, <<"-">>)
    THEN [st EXCEPT !.currentFrom = Some(SliceFrom(line, 1)),
                    !.warnings = IF st.currentFrom.some THEN @ + 1 ELSE @]
    ELSE IF StartsWith(line, <<"+">>)
    THEN IF st.currentFrom.some /\ st.currentFrom.val # Empty
         THEN [st EXCEPT !.renames = Append(@, [from |-> st.currentFrom.val,
                                                  to   |-> SliceFrom(line, 1)]),
                         !.currentFrom = None]
         ELSE [st EXCEPT !.warnings = @ + 1]
    ELSE [st EXCEPT !.warnings = @ + 1]

RECURSIVE ParseLines(_, _)
ParseLines(st, lines) ==
    IF lines = <<>> THEN st
    ELSE ParseLines(ParseLine(st, Head(lines)), Tail(lines))

\* parseRenamesFile: [renames, warnings]
ParseRenamesFile(text) ==
    LET st == ParseLines([renames |-> <<>>, currentFrom |-> None, warnings |-> 0],
                         ManifestLines(text))
    IN  [renames  |-> st.renames,
         warnings |-> IF st.currentFrom.some THEN st.warnings + 1 ELSE st.warnings]

-----------------------------------------------------------------------------
(* Serialization of the manifest (the end of runDryMode) *)

RECURSIVE OutputLines(_)
OutputLines(rs) ==
    IF rs = <<>> THEN <<>>
    ELSE <<<<"-">> \o Head(rs).from, <<"+">> \o Head(rs).to>> \o OutputLines(Tail(rs))

\* outputLines.join('\n') + '\n'
Serialize(rs) == Join(OutputLines(rs), "\n") \o <<"\n">>

-----------------------------------------------------------------------------
(* Inputs of the applier: paths, entries, filesystems, manifests *)

pA  == <<"A">>
pB  == <<"B">>
pAx == <<"A", "/", "x">>
pAy == <<"A", "/", "y">>
pBx == <<"B", "/", "x">>
pBy == <<"B", "/", "y">>

\* the content of the file that is at path p before the first run
FileId(p) ==
    CASE p = pA -> "fA" [] p = pB -> "fB" [] p = pAx -> "fAx"
      [] p = pAy -> "fAy" [] p = pBx -> "fBx" [] p = pBy -> "fBy"

Entry(f, t) == [from |-> f, to |-> t]

WetEntries ==
    { Entry(pAx, pBx), Entry(pAy, pBy),     \* unrelated moves
      Entry(pAy, pBx),                      \* a second entry for the same destination
      Entry(pBx, pAy), Entry(pBx, pAx),     \* chains and cycles
      Entry(pA, pB),                        \* a directory (or a top-level file)
      Entry(pA, pAx),                       \* into itself
      Entry(pAx, pA),                       \* onto its own parent
      Entry(pAx, pAx) }                     \* onto itself

\* all sequences over S of length at most n
RECURSIVE SeqsUpTo(_, _)
SeqsUpTo(S, n) ==
    IF n = 0 THEN {<<>>}
    ELSE LET shorter == SeqsUpTo(S, n - 1)
         IN  shorter \cup {Append(q, x) : q \in {r \in shorter : Len(r) = n - 1}, x \in S}

\* a top-level name: absent, a regular file, or a directory holding some of
\* the files x and y
TopLevel(name) ==
    {<<>>} \cup {(name :> FileId(name))} \cup
    { [p \in {name} \cup {name \o <<Slash, c>> : c \in kids} |->
          IF p = name THEN "dir" ELSE FileId(p)] : kids \in SUBSET {"x", "y"} }

\* the union of two filesystems with disjoint paths
Merge(f, g) == [p \in DOMAIN f \cup DOMAIN g |-> IF p \in DOMAIN f THEN f[p] ELSE g[p]]

WetFilesystems == {Merge(a, b) : a \in TopLevel(pA), b \in TopLevel(pB)}

\* the lines of a hand-edited manifest
LineTokens ==
    { <<"-">> \o pA, <<"+">> \o pB, <<"-">> \o pB, <<"+">> \o pA,
      <<"#">>, <<" ">>, <<"-">>, <<"+">> }

ManifestFilesystems == { (pA :> FileId(pA)), (pA :> FileId(pA)) @@ (pB :> FileId(pB)) }

-----------------------------------------------------------------------------
(* runWetMode: one action per awaited call *)

\* the builder is not running
DryIdle ==
    /\ files = <<>>
    /\ apiKey = <<>>
    /\ disk = {}
    /\ dpc = "idle"
    /\ fi = 1
    /\ mediaInfo = None
    /\ dryRenames = <<>>
    /\ consulted = <<>>
    /\ manifest = None

\* no path is being canonicalized
CanonIdle ==
    /\ cpc = "idle"
    /\ cInfo = None
    /\ cDir = <<>>
    /\ cPath = <<>>
    /\ cAgain = <<>>

\* no function is being applied
EvalIdle ==
    /\ epc = "idle"
    /\ eIn = <<>>
    /\ eOut = <<>>

InitWetWith(text, fs) ==
    /\ DryIdle
    /\ CanonIdle
    /\ EvalIdle
    /\ content = text
    /\ fsys = fs
    /\ fs0 = fs
    /\ pc = "start"
    /\ run = 1
    /\ renames = <<>>
    /\ warnings = 0
    /\ i = 1
    /\ successCount = 0
    /\ errorCount = 0
    /\ outcomes = <<>>
    /\ outcomes1 = <<>>
    /\ ontoExisting = FALSE
    /\ ioFault = FALSE

\* a manifest as runDryMode writes it, on any filesystem
InitWet ==
    \E rs \in SeqsUpTo(WetEntries, MaxEntries), fs \in WetFilesystems :
        InitWetWith(Serialize(rs), fs)

\* a hand-edited manifest
InitManifest ==
    \E ls \in SeqsUpTo(LineTokens, MaxLines), fs \in ManifestFilesystems :
        InitWetWith(Join(ls, "\n") \o <<"\n">>, fs)

\* const renames = await parseRenamesFile(renamesFile); the counters; the loop test
WetStart ==
    /\ pc = "start"
    /\ LET r == ParseRenamesFile(content)
       IN  /\ renames' = r.renames
           /\ warnings' = r.warnings
           /\ pc' = IF Len(r.renames) >= 1 THEN "accessFrom" ELSE "done"
    /\ i' = 1
    /\ successCount' = 0
    /\ errorCount' = 0
    /\ outcomes' = <<>>
    /\ UNCHANGED <<content, fsys, fs0, run, outcomes1, ontoExisting, ioFault>>
    /\ UNCHANGED <<dryVars, canonVars, evalVars>>

\* a slip: an entry that fails ends the run
FinishAbort(report) ==
    /\ outcomes' = Append(outcomes, [entry |-> i, report |-> report])
    /\ successCount' = IF report = "success" THEN successCount + 1 ELSE successCount
    /\ errorCount' = IF report = "success" THEN errorCount ELSE errorCount + 1
    /\ i' = i + 1
    /\ pc' = IF i + 1 <= Len(renames) /\ report # "error" THEN "accessFrom" ELSE "done"

\* the end of one iteration: the report, the counter, i++ and the loop test
Finish(report) ==
    /\ outcomes' = Append(outcomes, [entry |-> i, report |-> report])
    /\ successCount' = IF report = "success" THEN successCount + 1 ELSE successCount
    /\ errorCount' = IF report = "success" THEN errorCount ELSE errorCount + 1
    /\ i' = i + 1
    /\ pc' = IF i + 1 <= Len(renames) THEN "accessFrom" ELSE "done"

\* a slip: the source is not checked
SourceExistsUnchecked(fs, from) == TRUE

\* await fs.access(rename.from) resolves
SourceExists(fs, from) == Exists(fs, from)

AccessFrom ==
    /\ pc = "accessFrom"
    /\ IF SourceExists(fsys, renames[i].from)
       THEN /\ pc' = "ensureDir"
            /\ UNCHANGED <<i, successCount, errorCount, outcomes>>
       ELSE Finish("error")
    /\ UNCHANGED <<content, fsys, fs0, run, renames, warnings, outcomes1,
                   ontoExisting, ioFault>>
    /\ UNCHANGED <<dryVars, canonVars, evalVars>>

\* await ensureDir(path.dirname(rename.to)): EEXIST is ignored, any other
\* failure is thrown again and caught by the loop body's catch
EnsureDir ==
    /\ pc = "ensureDir"
    /\ LET m == MkdirP(fsys, PathDirname(renames[i].to))
       IN  \E fault \in {f \in BOOLEAN : f => (m.err = "" /\ m.fs # fsys)} :
             IF fault \/ m.err \notin {"", "EEXIST"}
             THEN /\ Finish("error")
                  /\ ioFault' = (ioFault \/ (fault /\ run = 1))
                  /\ UNCHANGED fsys
             ELSE /\ fsys' = m.fs
                  /\ pc' = "accessTo"
                  /\ UNCHANGED <<i, successCount, errorCount, outcomes, ioFault>>
    /\ UNCHANGED <<content, fs0, run, renames, warnings, outcomes1, ontoExisting>>
    /\ UNCHANGED <<dryVars, canonVars, evalVars>>

\* a slip: the destination is not checked
DestinationExistsUnchecked(fs, to) == FALSE

\* await fs.access(rename.to) in its own try: "Destination already exists, skipping"
DestinationExists(fs, to) == Exists(fs, to)

AccessTo ==
    /\ pc = "accessTo"
    /\ IF DestinationExists(fsys, renames[i].to)
       THEN Finish("skipping")
       ELSE /\ pc' = "rename"
            /\ UNCHANGED <<i, successCount, errorCount, outcomes>>
    /\ UNCHANGED <<content, fsys, fs0, run, renames, warnings, outcomes1,
                   ontoExisting, ioFault>>
    /\ UNCHANGED <<dryVars, canonVars, evalVars>>

\* await fs.rename(rename.from, rename.to)
DoRename ==
    /\ pc = "rename"
    /\ LET r == Rename(fsys, renames[i].from, renames[i].to)
       IN  \E fault \in {f \in BOOLEAN : f => r.ok} :
             IF fault \/ ~r.ok
             THEN /\ Finish("error")
                  /\ ioFault' = (ioFault \/ (fault /\ run = 1))
                  /\ UNCHANGED <<fsys, ontoExisting>>
             ELSE /\ Finish("success")
                  /\ fsys' = r.fs
                  /\ ontoExisting' = (ontoExisting \/ r.onto)
                  /\ UNCHANGED ioFault
    /\ UNCHANGED <<content, fs0, run, renames, warnings, outcomes1>>
    /\ UNCHANGED <<dryVars, canonVars, evalVars>>

\* the applier is started a second time on the same manifest
Rerun ==
    /\ pc = "done"
    /\ run = 1
    /\ run' = 2
    /\ outcomes1' = outcomes
    /\ pc' = "start"
    /\ UNCHANGED <<content, fsys, fs0, renames, warnings, i, successCount,
                   errorCount, outcomes, ontoExisting, ioFault>>
    /\ UNCHANGED <<dryVars, canonVars, evalVars>>

NextWet == WetStart \/ AccessFrom \/ EnsureDir \/ AccessTo \/ DoRename \/ Rerun

Spec == InitWet /\ [][NextWet]_vars

SpecManifest == InitManifest /\ [][NextWet]_vars

-----------------------------------------------------------------------------
(* Claims about the applier *)

\* the paths at which the file with content c is found
Where(fs, c) == {p \in DOMAIN fs : fs[p] = c}

\* the regular files of fs
FilesOf(fs) == {<<p, fs[p]>> : p \in {q \in DOMAIN fs : fs[q] # "dir"}}

\* the entries that were moved, in the first run or in this one
Moved ==
    {o.entry : o \in {x \in {outcomes1[k] : k \in 1..Len(outcomes1)}
                              \cup {outcomes[k] : k \in 1..Len(outcomes)} :
                         x.report = "success"}}

ReportsOf(os) == {os[k].report : k \in 1..Len(os)}

\* the move is attempted only while the destination does not exist, no move
\* ever lands on an existing path, and no file is lost or duplicated
NeverOverwrites ==
    /\ ~ontoExisting
    /\ (pc = "rename" => ~Exists(fsys, renames[i].to))
    /\ errorCount = Cardinality({k \in 1..Len(outcomes) : outcomes[k].report # "success"})
    /\ \A c \in Contents(fs0) : Cardinality(Where(fsys, c)) = 1

\* C1 as stated: the destination is never overwritten, and every file that
\* was there before the run is afterwards at its original path or at the
\* destination of an entry.
C1_Original ==
    /\ NeverOverwrites
    /\ \A c \in Contents(fs0) : \A p \in Where(fsys, c) :
          \/ p \in Where(fs0, c)
          \/ \E k \in 1..Len(renames) : renames[k].to = p

\* C1: the applier never moves onto a path that exists when the entry is
\* processed (the entry is skipped and counted as an error), no file is lost,
\* duplicated or replaced, and every file that was there before the run is
\* afterwards at its original path, at the destination of an entry that was
\* moved, or beneath the destination of a moved entry whose source was a
\* directory above the file.
C1_NoOverwrite ==
    /\ NeverOverwrites
    /\ \A c \in Contents(fs0) : \A p \in Where(fsys, c) :
          \/ p \in Where(fs0, c)
          \/ \E k \in Moved : Under(p, renames[k].to)

\* an entry was skipped because an earlier entry had filled its destination
C1_Witness ==
    /\ pc = "done"
    /\ run = 1
    /\ Len(outcomes) = 2
    /\ outcomes[1].report = "success"
    /\ outcomes[2].report = "skipping"
    /\ renames[1].to = renames[2].to
    /\ renames[1].from # renames[2].from

\* no path of the manifest is another path of it or a directory above one
Independent(rs) ==
    LET ps == [k \in 1..(2 * Len(rs)) |->
                  IF k <= Len(rs) THEN rs[k].from ELSE rs[k - Len(rs)].to]
    IN  \A a, b \in DOMAIN ps : a # b => ~Under(ps[a], ps[b])

C3_RunsToEnd ==
    /\ [](/\ successCount + errorCount = Len(outcomes)
          /\ \A k \in 1..Len(outcomes) : outcomes[k].entry = k
          /\ (pc \notin {"start", "done"} => i = Len(outcomes) + 1 /\ i <= Len(renames))
          /\ (pc = "done" => Len(outcomes) = Len(renames)))
    /\ [][errorCount' = errorCount + 1 => FilesOf(fsys') = FilesOf(fsys)]_vars

\* a run that went on after a failure and kept the move made before it
C3_Witness ==
    /\ pc = "done"
    /\ run = 1
    /\ Len(renames) >= 2
    /\ outcomes[1].report = "success"
    /\ outcomes[2].report = "error"
    /\ FilesOf(fsys) # FilesOf(fs0)

-----------------------------------------------------------------------------
(* Claims about the manifest parser *)

IsSigned(line) == StartsWith(line, <<"-">>) \/ StartsWith(line, <<"+">>)

\* the '-' and '+' lines of the file, in order
SignedLines(text) == SelectSeq(ManifestLines(text), IsSigned)

\* the positions in ls of a '-' line that names a source and is directly
\* followed by a '+' line
PairsIn(ls) ==
    {j \in 1..(Len(ls) - 1) :
        /\ StartsWith(ls[j], <<"-">>)
        /\ Len(ls[j]) > 1
        /\ StartsWith(ls[j + 1], <<"+">>)}

\* the k-th smallest element of a set of numbers
RECURSIVE Nth(_, _)
Nth(S, k) ==
    LET m == CHOOSE x \in S : \A y \in S : x <= y
    IN  IF k = 1 THEN m ELSE Nth(S \ {m}, k - 1)

\* the entries of the pairs of ls, in order
EntriesOf(ls) ==
    [k \in 1..Cardinality(PairsIn(ls)) |->
        LET j == Nth(PairsIn(ls), k)
        IN  [from |-> SliceFrom(ls[j], 1), to |-> SliceFrom(ls[j + 1], 1)]]

\* C4 as stated: an entry (s, d) is formed only from a line -s directly
\* followed by the line +d, blank lines left out.
C4_StrictPairing ==
    LET ls == ManifestLines(content)
    IN  \A k \in 1..Len(renames) :
          \E j \in PairsIn(ls) :
              /\ ls[j] = <<"-">> \o renames[k].from
              /\ ls[j + 1] = <<"+">> \o renames[k].to

\* C5: a '+' line with no pending '-' line, a '-' line followed by another
\* '-' line or by the end of the file, and a line starting with neither sign
\* contribute no entry and one warning each; the entries returned are exactly
\* the remaining '-'/'+' pairs, in file order, every well-formed pair of
\* adjacent lines is among them, and the applier attempts them all in order.
C5_MalformedLinesDropped ==
    LET ls == ManifestLines(content)
        sl == SignedLines(content)
    IN  /\ (pc # "start" \/ run = 2) =>
              /\ renames = EntriesOf(sl)
              /\ warnings = Len(ls) - 2 * Cardinality(PairsIn(sl))
              /\ \A j \in PairsIn(ls) : \E k \in 1..Len(renames) :
                    /\ renames[k].from = SliceFrom(ls[j], 1)
                    /\ renames[k].to = SliceFrom(ls[j + 1], 1)
        /\ (pc = "done" /\ run = 1) =>
              /\ Len(outcomes) = Len(renames)
              /\ \A k \in 1..Len(outcomes) : outcomes[k].entry = k

\* a manifest with three kinds of malformed lines around a pair that is moved
C5_Witness ==
    /\ pc = "done"
    /\ run = 1
    /\ warnings >= 2
    /\ Len(ManifestLines(content)) > Len(SignedLines(content))
    /\ Len(renames) = 1
    /\ successCount = 1

-----------------------------------------------------------------------------
(* Strings and paths of the manifest builder *)

Least(S) == CHOOSE x \in S : \A y \in S : x <= y
Greatest(S) == CHOOSE x \in S : \A y \in S : x >= y

Lower == <<"a", "b", "c", "d", "e", "f", "g", "h", "i", "j", "k", "l", "m",
           "n", "o", "p", "q", "r", "s", "t", "u", "v", "w", "x", "y", "z">>
Upper == <<"A", "B", "C", "D", "E", "F", "G", "H", "I", "J", "K", "L", "M",
           "N", "O", "P", "Q", "R", "S", "T", "U", "V", "W", "X", "Y", "Z">>
Digits == <<"0", "1", "2", "3", "4", "5", "6", "7", "8", "9">>

IsDigit(c) == \E k \in DOMAIN Digits : Digits[k] = c
DigitVal(c) == (CHOOSE k \in DOMAIN Digits : Digits[k] = c) - 1

ToLowerChar(c) ==
    IF \E k \in DOMAIN Upper : Upper[k] = c
    THEN Lower[CHOOSE k \in DOMAIN Upper : Upper[k] = c] ELSE c
ToUpperChar(c) ==
    IF \E k \in DOMAIN Lower : Lower[k] = c
    THEN Upper[CHOOSE k \in DOMAIN Lower : Lower[k] = c] ELSE c

\* String.prototype.toLowerCase
ToLowerCase(s) == [k \in 1..Len(s) |-> ToLowerChar(s[k])]

\* parseInt(ds, 10) of a string of digits
RECURSIVE ParseInt(_)
ParseInt(ds) ==
    IF ds = <<>> THEN 0
    ELSE ParseInt(SubSeq(ds, 1, Len(ds) - 1)) * 10 + DigitVal(ds[Len(ds)])

\* Number.prototype.toString of a natural number
RECURSIVE NumberToString(_)
NumberToString(n) ==
    IF n < 10 THEN <<Digits[n + 1]>>
    ELSE NumberToString(n \div 10) \o <<Digits[(n % 10) + 1]>>

\* String.prototype.padStart(2, '0')
PadStart2(s) == IF Len(s) < 2 THEN <<"0">> \o s ELSE s

\* String.prototype.slice(0, -n): slice(0, -0) is slice(0, 0), the empty string
SliceOffEnd(s, n) == IF n = 0 THEN <<>> ELSE SubSeq(s, 1, Len(s) - n)

\* the character class [\s._-]
IsSep(c) == IsSpace(c) \/ c \in {".", "_", "-"}

\* the position of the first character at or after k that is no separator
\* (Len(s) + 1 when there is none): where a greedy [\s._-]* from k ends
SkipSeps(s, k) == Least({j \in k..(Len(s) + 1) : j = Len(s) + 1 \/ ~IsSep(s[j])})

\* \d{4} at position k
FourDigitsAt(s, k) == k + 3 <= Len(s) /\ \A j \in k..(k + 3) : IsDigit(s[j])

\* path.basename (POSIX)
PathBasename(p) ==
    LET nz == {k \in 1..Len(p) : p[k] # Slash}
    IN  IF nz = {} THEN <<>>
        ELSE LET e  == Greatest(nz)
                 sl == {k \in 1..e : p[k] = Slash}
             IN  SubSeq(p, IF sl = {} THEN 1 ELSE Greatest(sl) + 1, e)

\* path.extname (POSIX): from the last dot of the last component, unless that
\* dot opens the component or the component is ".."
PathExtname(p) ==
    LET b    == PathBasename(p)
        dots == {k \in 1..Len(b) : b[k] = "."}
    IN  IF dots = {} \/ b = <<".", ".">> THEN <<>>
        ELSE IF Greatest(dots) = 1 THEN <<>>
        ELSE SubSeq(b, Greatest(dots), Len(b))

\* normalizeString of path.normalize: drops "" and ".", resolves ".."
RECURSIVE NormalizeSegments(_, _, _)
NormalizeSegments(segs, acc, allowAboveRoot) ==
    IF segs = <<>> THEN acc
    ELSE LET s == Head(segs)
             rest == Tail(segs)
         IN  IF s = <<>> \/ s = Dot
             THEN NormalizeSegments(rest, acc, allowAboveRoot)
             ELSE IF s = <<".", ".">>
             THEN IF Len(acc) > 0 /\ acc[Len(acc)] # <<".", ".">>
                  THEN NormalizeSegments(rest, SubSeq(acc, 1, Len(acc) - 1),
                                         allowAboveRoot)
                  ELSE IF allowAboveRoot
                  THEN NormalizeSegments(rest, Append(acc, s), allowAboveRoot)
                  ELSE NormalizeSegments(rest, acc, allowAboveRoot)
             ELSE NormalizeSegments(rest, Append(acc, s), allowAboveRoot)

\* path.normalize (POSIX)
PathNormalize(p) ==
    IF p = <<>> THEN Dot
    ELSE LET isAbsolute == p[1] = Slash
             trailingSeparator == p[Len(p)] = Slash
             body == Join(NormalizeSegments(Split(p, Slash), <<>>, ~isAbsolute),
                          Slash)
         IN  IF body = <<>>
             THEN (IF isAbsolute THEN <<Slash>>
                   ELSE IF trailingSeparator THEN <<".", Slash>> ELSE Dot)
             ELSE (IF isAbsolute THEN <<Slash>> ELSE <<>>) \o body
                  \o (IF trailingSeparator THEN <<Slash>> ELSE <<>>)

\* path.join(a, b) (POSIX): the non-empty arguments joined by "/", normalized
PathJoin(a, b) ==
    IF a = <<>> /\ b = <<>> THEN Dot
    ELSE IF a = <<>> THEN PathNormalize(b)
    ELSE IF b = <<>> THEN PathNormalize(a)
    ELSE PathNormalize(a \o <<Slash>> \o b)

\* path.isAbsolute (POSIX)
IsAbsolute(p) == Len(p) > 0 /\ p[1] = Slash

-----------------------------------------------------------------------------
(* The static filename parser (parseFilename) *)

VALID_VIDEO_EXTENSIONS ==
    {<<".", "m", "k", "v">>, <<".", "m", "p", "4">>, <<".", "a", "v", "i">>,
     <<".", "m", "o", "v">>, <<".", "w", "m", "v">>, <<".", "f", "l", "v">>,
     <<".", "m", "4", "v">>, <<".", "t", "s">>}

\* the release tags of the TV pattern
ReleaseTags ==
    {<<"A", "M", "Z", "N">>, <<"W", "e", "b", "R", "I", "P">>,
     <<"W", "E", "B", "R", "i", "p">>, <<"B", "l", "u", "R", "a", "y">>,
     <<"H", "D", "T", "V">>, <<"1", "0", "8", "0", "p">>,
     <<"7", "2", "0", "p">>, <<"4", "8", "0", "p">>}

currentYear == 2026

\* replace(/\s+/g, ' ')
RECURSIVE CollapseSpaces(_)
CollapseSpaces(s) ==
    IF s = <<>> THEN <<>>
    ELSE IF IsSpace(s[1])
    THEN LET rest == {k \in 1..Len(s) : ~IsSpace(s[k])}
         IN  IF rest = {} THEN <<" ">>
             ELSE <<" ">> \o CollapseSpaces(SubSeq(s, Least(rest), Len(s)))
    ELSE <<s[1]>> \o CollapseSpaces(Tail(s))

\* split(/[\s-]/)
RECURSIVE SplitWords(_)
SplitWords(s) ==
    LET at == {k \in 1..Len(s) : IsSpace(s[k]) \/ s[k] = "-"}
    IN  IF at = {} THEN <<s>>
        ELSE <<SubSeq(s, 1, Least(at) - 1)>>
             \o SplitWords(SubSeq(s, Least(at) + 1, Len(s)))

\* word.charAt(0).toUpperCase() + word.slice(1).toLowerCase()
Capitalize(word) ==
    IF word = <<>> THEN <<>>
    ELSE <<ToUpperChar(word[1])>> \o ToLowerCase(Tail(word))

cleanTitle(title) ==
    LET spaced == [k \in 1..Len(title) |->
                      IF title[k] \in {".", "_"} THEN " " ELSE title[k]]
        words  == SplitWords(Trim(CollapseSpaces(spaced)))
    IN  Join([k \in 1..Len(words) |-> Capitalize(words[k])], " ")

\* the extension parseFilename keeps: only that of a video file
VideoExtension(filepath) ==
    LET rawExtension == PathExtname(PathBasename(filepath))
    IN  IF ToLowerCase(rawExtension) \in VALID_VIDEO_EXTENSIONS
        THEN rawExtension ELSE <<>>

NameWithoutExt(filepath) ==
    LET basename == PathBasename(filepath)
        extension == VideoExtension(filepath)
    IN  IF extension # <<>> THEN SliceOffEnd(basename, Len(extension))
        ELSE basename

\* [Ss](\d{1,2})[Ee] at position k: the number of season digits, 0 for no match
SeasonDigitsAt(s, k) ==
    IF k > Len(s) \/ ToLowerChar(s[k]) # "s" THEN 0
    ELSE IF k + 3 <= Len(s) /\ IsDigit(s[k + 1]) /\ IsDigit(s[k + 2])
            /\ ToLowerChar(s[k + 3]) = "e" THEN 2
    ELSE IF k + 2 <= Len(s) /\ IsDigit(s[k + 1])
            /\ ToLowerChar(s[k + 2]) = "e" THEN 1
    ELSE 0

\* [Ss](\d{1,2})[Ee](\d{1,2}) at position k
EpisodeMarkerAt(s, k) ==
    /\ SeasonDigitsAt(s, k) > 0
    /\ k + SeasonDigitsAt(s, k) + 2 <= Len(s)
    /\ IsDigit(s[k + SeasonDigitsAt(s, k) + 2])

\* x matches ^[\s._-]*(AMZN|...|480p), case-insensitively
StartsWithTag(x) ==
    LET k == SkipSeps(x, 1)
    IN  \E t \in ReleaseTags :
            /\ k + Len(t) - 1 <= Len(x)
            /\ ToLowerCase(SubSeq(x, k, k + Len(t) - 1)) = ToLowerCase(t)

\* group 4 of the TV pattern on the text r after the episode number:
\* (?:[\s._-]*(.+?))?(?:[\s._-]*(TAG).*)?$
EpisodeTitleGroup(r) ==
    IF r = <<>> THEN None
    ELSE LET x == SubSeq(r, SkipSeps(r, 1), Len(r))
         IN  IF x = <<>> THEN Some(<<r[Len(r)]>>)
             ELSE Some(SubSeq(x, 1,
                      Least({m \in 1..Len(x) :
                               \/ m = Len(x)
                               \/ StartsWithTag(SubSeq(x, m + 1, Len(x)))})))

\* the identity of a TV episode
TvInfo(title, season, episode, episodeTitle, extension, filepath) ==
    [type |-> "tv", title |-> title, year |-> None, season |-> season,
     episode |-> episode, episodeTitle |-> episodeTitle,
     extension |-> extension, originalPath |-> filepath]

\* the identity of a movie
MovieInfo(title, year, extension, filepath) ==
    [type |-> "movie", title |-> title, year |-> year, season |-> None,
     episode |-> None, episodeTitle |-> None,
     extension |-> extension, originalPath |-> filepath]

\* the groups of the TV pattern with (.+?) of length l, [Ss] at position k and
\* sd season digits: the episode number takes two digits when it can
TvGroups(name, l, k, sd) ==
    LET e  == k + sd + 2
        ed == IF e + 1 <= Len(name) /\ IsDigit(name[e + 1]) THEN 2 ELSE 1
    IN  [title   |-> SubSeq(name, 1, l),
         season  |-> SubSeq(name, k + 1, k + sd),
         episode |-> SubSeq(name, e, e + ed - 1),
         episodeTitle |-> EpisodeTitleGroup(SubSeq(name, e + ed, Len(name)))]

\* the lengths of (.+?) for which the rest of the pattern matches; the lazy
\* group takes the least
\* /^(.+?)[\s._-]*[Ss](\d{1,2})[Ee](\d{1,2})(?:[\s._-]*(.+?))?(?:[\s._-]*(TAG).*)?$/i
TvTitleLengths(name) ==
    {l \in 1..Len(name) : EpisodeMarkerAt(name, SkipSeps(name, l + 1))}

\* \((\d{4})\) at position k
ParenYearAt(s, k) ==
    /\ k + 5 <= Len(s)
    /\ s[k] = "("
    /\ FourDigitsAt(s, k + 1)
    /\ s[k + 5] = ")"

\* /^(.+?)[\s._-]*\((\d{4})\)/
MovieTitleLengths(name) ==
    {l \in 1..Len(name) : ParenYearAt(name, SkipSeps(name, l + 1))}

\* (\d{4})(?:[\s._-]|$) at position k
BareYearAt(s, k) ==
    /\ FourDigitsAt(s, k)
    /\ (k + 4 = Len(s) + 1 \/ IsSep(s[k + 4]))

\* /^(.+?)[\s._-]+(\d{4})(?:[\s._-]|$)/
YearTitleLengths(name) ==
    {l \in 1..(Len(name) - 1) :
        IsSep(name[l + 1]) /\ BareYearAt(name, SkipSeps(name, l + 1))}

\* the third pattern with both bounds exclusive
ParseYearExclusive(name, l, k, extension, filepath) ==
    IF ParseInt(SubSeq(name, k, k + 3)) > 1900
       /\ ParseInt(SubSeq(name, k, k + 3)) < currentYear + 3
    THEN Some(MovieInfo(cleanTitle(SubSeq(name, 1, l)),
                        Some(ParseInt(SubSeq(name, k, k + 3))),
                        extension, filepath))
    ELSE None

\* the third pattern, with (.+?) of length l and the year at position k
ParseYear(name, l, k, extension, filepath) ==
    IF ParseInt(SubSeq(name, k, k + 3)) >= 1900
       /\ ParseInt(SubSeq(name, k, k + 3)) <= currentYear + 3
    THEN Some(MovieInfo(cleanTitle(SubSeq(name, 1, l)),
                        Some(ParseInt(SubSeq(name, k, k + 3))),
                        extension, filepath))
    ELSE None

\* the second pattern, with (.+?) of length l and "(" at position k
ParseMovie(name, l, k, extension, filepath) ==
    Some(MovieInfo(cleanTitle(SubSeq(name, 1, l)),
                   Some(ParseInt(SubSeq(name, k + 1, k + 4))),
                   extension, filepath))

\* the first pattern, from its groups
ParseTv(tvMatch, extension, filepath) ==
    Some(TvInfo(cleanTitle(tvMatch.title),
                Some(ParseInt(tvMatch.season)),
                Some(ParseInt(tvMatch.episode)),
                IF tvMatch.episodeTitle.some
                THEN Some(cleanTitle(tvMatch.episodeTitle.val)) ELSE None,
                extension, filepath))

\* the three patterns in turn, given the lengths (.+?) can take in each
ParseName(name, tv, movie, year, extension, filepath) ==
    IF tv # {}
    THEN ParseTv(TvGroups(name, Least(tv), SkipSeps(name, Least(tv) + 1),
                          SeasonDigitsAt(name, SkipSeps(name, Least(tv) + 1))),
                 extension, filepath)
    ELSE IF movie # {}
    THEN ParseMovie(name, Least(movie), SkipSeps(name, Least(movie) + 1),
                    extension, filepath)
    ELSE IF year # {}
    THEN ParseYear(name, Least(year), SkipSeps(name, Least(year) + 1),
                   extension, filepath)
    ELSE None

\* the three patterns on a name without its video extension
MatchName(name, extension, filepath) ==
    ParseName(name, TvTitleLengths(name), MovieTitleLengths(name),
              YearTitleLengths(name), extension, filepath)

parseFilename(filepath) ==
    MatchName(NameWithoutExt(filepath), VideoExtension(filepath), filepath)

-----------------------------------------------------------------------------
(* Canonical paths (generateNewPath) *)

\* the result of a call that throws
Thrown == [ok |-> FALSE, path |-> <<>>]
Returned(p) == [ok |-> TRUE, path |-> p]

\* an optional number that is neither undefined nor 0
Truthy(n) == n.some /\ n.val # 0

generateTVFilename(info) ==
    IF info.type # "tv" \/ ~Truthy(info.season) \/ ~Truthy(info.episode)
    THEN Thrown
    ELSE LET seasonNum == PadStart2(NumberToString(info.season.val))
             episodeNum == PadStart2(NumberToString(info.episode.val))
             filename ==
                 info.title \o <<" ", "-", " ", "S">> \o seasonNum \o <<"E">>
                 \o episodeNum
                 \o (IF info.episodeTitle.some /\ info.episodeTitle.val # <<>>
                     THEN <<" ", "-", " ">> \o info.episodeTitle.val
                     ELSE <<>>)
                 \o info.extension
             dirPath == info.title
                        \o <<Slash, "S", "e", "a", "s", "o", "n", " ">>
                        \o seasonNum
         IN  Returned(PathJoin(dirPath, filename))

generateMovieFilename(info) ==
    IF info.type # "movie" THEN Thrown
    ELSE LET named == IF Truthy(info.year)
                      THEN info.title \o <<" ", "(">>
                           \o NumberToString(info.year.val) \o <<")">>
                      ELSE info.title
         IN  Returned(PathJoin(named, named \o info.extension))

\* replace(/[\s._-]+/g, ' ')
RECURSIVE CollapseSeps(_)
CollapseSeps(s) ==
    IF s = <<>> THEN <<>>
    ELSE IF IsSep(s[1])
    THEN <<" ">> \o CollapseSeps(SubSeq(s, SkipSeps(s, 1), Len(s)))
    ELSE <<s[1]>> \o CollapseSeps(Tail(s))

normalizeForComparison(str) == Trim(CollapseSeps(ToLowerCase(str)))

\* String.prototype.trimEnd
TrimEnd(s) ==
    LET keep == {k \in 1..Len(s) : ~IsSpace(s[k])}
    IN  IF keep = {} THEN <<>> ELSE SubSeq(s, 1, Greatest(keep))

\* replace(/\s*\(\d{4}\)\s*$/, '')
StripParenYear(s) ==
    LET t == TrimEnd(s)
        n == Len(t)
    IN  IF n >= 6 /\ t[n] = ")" /\ t[n - 5] = "(" /\ FourDigitsAt(t, n - 4)
        THEN TrimEnd(SubSeq(t, 1, n - 6)) ELSE s

\* replace(/\s+\d{4}\s*$/, '')
StripBareYear(s) ==
    LET t == TrimEnd(s)
        n == Len(t)
    IN  IF n >= 5 /\ FourDigitsAt(t, n - 3) /\ IsSpace(t[n - 4])
        THEN TrimEnd(SubSeq(t, 1, n - 4)) ELSE s

stripTrailingYear(str) == Trim(StripBareYear(StripParenYear(str)))

isSimilar(a, b) ==
    \/ normalizeForComparison(a) = normalizeForComparison(b)
    \/ normalizeForComparison(stripTrailingYear(a))
         = normalizeForComparison(stripTrailingYear(b))

\* /^Season\s+\d+$/i
IsSeasonFolder(part) ==
    LET k == IF Len(part) >= 7
             THEN Least({j \in 7..(Len(part) + 1) :
                            j = Len(part) + 1 \/ ~IsSpace(part[j])})
             ELSE 0
    IN  /\ Len(part) >= 8
        /\ ToLowerCase(SubSeq(part, 1, 6)) = <<"s", "e", "a", "s", "o", "n">>
        /\ k > 7
        /\ k <= Len(part)
        /\ \A j \in k..Len(part) : IsDigit(part[j])

\* rootParts.length > 0 ? rootParts.join(path.sep) : parts[0]
RootOf(parts, count) ==
    IF count > 0 THEN Join(SubSeq(parts, 1, count), Slash) ELSE parts[1]

findMediaRoot(originalDir, info) ==
    LET parts == Split(originalDir, Slash)
        movieFolder == IF Truthy(info.year)
                       THEN info.title \o <<" ", "(">>
                            \o NumberToString(info.year.val) \o <<")">>
                       ELSE info.title
        \* positions are 1-based: parts[k] is the source's parts[k - 1]
        InSeason(k) == /\ IsSeasonFolder(parts[k])
                       /\ k > 1
                       /\ isSimilar(parts[k - 1], info.title)
        hits == IF info.type = "tv"
                THEN {k \in 1..Len(parts) :
                         InSeason(k) \/ isSimilar(parts[k], info.title)}
                ELSE IF info.type = "movie"
                THEN {k \in 1..Len(parts) :
                         \/ isSimilar(parts[k], movieFolder)
                         \/ isSimilar(parts[k], info.title)}
                ELSE {}
    IN  IF hits = {} THEN originalDir
        ELSE LET k == Greatest(hits)
             IN  IF info.type = "tv" /\ InSeason(k)
                 THEN RootOf(parts, k - 2)
                 ELSE RootOf(parts, k - 1)

\* the loop of fixDoubleNesting from position k (1-based) on
RECURSIVE FixFrom(_, _, _)
FixFrom(parts, k, result) ==
    IF k > Len(parts) THEN result
    ELSE IF k > 1 /\ isSimilar(parts[k - 1], parts[k])
    THEN FixFrom(parts, k + 1, result)
    ELSE IF /\ k > 1
            /\ normalizeForComparison(parts[k - 1])
                 = normalizeForComparison(StripParenYear(parts[k]))
    THEN FixFrom(parts, k + 1,
                 Append(SubSeq(result, 1, Len(result) - 1), parts[k]))
    ELSE FixFrom(parts, k + 1, Append(result, parts[k]))

fixDoubleNesting(filePath) == Join(FixFrom(Split(filePath, Slash), 1, <<>>), Slash)

generateNewPath(info, basePath) ==
    LET relativeNewPath == IF info.type = "tv" THEN generateTVFilename(info)
                           ELSE generateMovieFilename(info)
    IN  IF ~relativeNewPath.ok THEN Thrown
        ELSE Returned(fixDoubleNesting(
                 PathJoin(findMediaRoot(basePath, info), relativeNewPath.path)))

-----------------------------------------------------------------------------
(* The manifest builder (runDryMode) *)

ASSOCIATED_FILE_EXTENSIONS ==
    {<<".", "s", "r", "t">>, <<".", "s", "u", "b">>, <<".", "i", "d", "x">>,
     <<".", "a", "s", "s">>, <<".", "s", "s", "a">>, <<".", "v", "t", "t">>,
     <<".", "n", "f", "o">>, <<".", "j", "p", "g">>, <<".", "j", "p", "e",
       "g">>,
     <<".", "p", "n", "g">>, <<".", "t", "b", "n">>, <<".", "t", "x", "t">>}

validateApiKey(key) == Len(key) > 10

\* the names fs.readdir(dir) reports as regular files; a directory that
\* cannot be read gives none (the catch of findAssociatedFiles)
Readdir(d, dir) == {PathBasename(p) : p \in {q \in d : PathDirname(q) = dir}}

findAssociatedFiles(mediaFilePath, d) ==
    LET dir == PathDirname(mediaFilePath)
        mediaBasename == PathBasename(mediaFilePath)
        mediaExt == ToLowerCase(PathExtname(mediaBasename))
        mediaNameWithoutExt == SliceOffEnd(mediaBasename, Len(mediaExt))
        Matches(name) ==
            LET ext == ToLowerCase(PathExtname(name))
                entryNameWithoutExt == SliceOffEnd(name, Len(ext))
            IN  /\ ext \notin VALID_VIDEO_EXTENSIONS
                /\ ext \in ASSOCIATED_FILE_EXTENSIONS
                /\ \/ entryNameWithoutExt = mediaNameWithoutExt
                   \/ StartsWith(entryNameWithoutExt, mediaNameWithoutExt \o <<".">>)
                   \/ StartsWith(entryNameWithoutExt, mediaNameWithoutExt \o <<"-">>)
    IN  {PathJoin(dir, name) : name \in {x \in Readdir(d, dir) : Matches(x)}}

generateAssociatedFilePath(associatedFile, originalMediaFile, newMediaPath) ==
    LET newDir == PathDirname(newMediaPath)
        originalMediaBasename == PathBasename(originalMediaFile)
        originalMediaName ==
            SliceOffEnd(originalMediaBasename,
                        Len(PathExtname(originalMediaBasename)))
        newMediaBasename == PathBasename(newMediaPath)
        newMediaName ==
            SliceOffEnd(newMediaBasename, Len(PathExtname(newMediaBasename)))
        associatedBasename == PathBasename(associatedFile)
    IN  PathJoin(newDir,
                 IF StartsWith(associatedBasename, originalMediaName)
                 THEN newMediaName
                      \o SliceFrom(associatedBasename, Len(originalMediaName))
                 ELSE associatedBasename)

\* the orders in which fs.readdir may report the members of S
Orderings(S) ==
    {s \in SeqsUpTo(S, Cardinality(S)) :
        Len(s) = Cardinality(S) /\ \A x \in S : \E k \in 1..Len(s) : s[k] = x}

(* Inputs of the builder *)

MaxFiles == 2

Foo == <<"F", "o", "o">>

DryFiles ==
    \* "Show.S00E01.mkv"
    {<<"S", "h", "o", "w", ".", "S", "0", "0", "E", "0", "1", ".", "m", "k",
      "v">>,
     \* "/Foo/Foo.S01E01.mkv"
     <<"/", "F", "o", "o", "/", "F", "o", "o", ".", "S", "0", "1", "E", "0",
       "1", ".", "m", "k", "v">>,
     \* "/Foo/Season 01/x.mkv"
     <<"/", "F", "o", "o", "/", "S", "e", "a", "s", "o", "n", " ", "0", "1",
       "/", "x", ".", "m", "k", "v">>,
     \* "/m/Foo/Season 01/Foo - S01E01.mkv"
     <<"/", "m", "/", "F", "o", "o", "/", "S", "e", "a", "s", "o", "n", " ",
       "0", "1", "/", "F", "o", "o", " ", "-", " ", "S", "0", "1", "E", "0",
         "1", ".", "m", "k", "v">>,
     \* "m/Show.S01E02.1080p.mkv"
     <<"m", "/", "S", "h", "o", "w", ".", "S", "0", "1", "E", "0", "2", ".",
       "1", "0", "8", "0", "p", ".", "m", "k", "v">>,
     \* "m/Movie.2020.mkv"
     <<"m", "/", "M", "o", "v", "i", "e", ".", "2", "0", "2", "0", ".", "m",
       "k", "v">>,
     \* "m/Show.S01E03.xyz"
     <<"m", "/", "S", "h", "o", "w", ".", "S", "0", "1", "E", "0", "3", ".",
       "x", "y", "z">>,
     \* "notes"
     <<"n", "o", "t", "e", "s">>}

DryDisks ==
    {{},
     \* "m/Show.S01E02.1080p.en.srt"
     {<<"m", "/", "S", "h", "o", "w", ".", "S", "0", "1", "E", "0", "2",
       ".", "1", "0", "8", "0", "p", ".", "e", "n", ".", "s", "r", "t">>,
      \* "m/Show.S01E02.1080p.nfo"
      <<"m", "/", "S", "h", "o", "w", ".", "S", "0", "1", "E", "0", "2",
        ".", "1", "0", "8", "0", "p", ".", "n", "f", "o">>,
      \* "/Foo/Foo.S01E01.srt"
      <<"/", "F", "o", "o", "/", "F", "o", "o", ".", "S", "0", "1", "E",
        "0", "1", ".", "s", "r", "t">>,
      \* "m/Show.S01E03.en.srt"
      <<"m", "/", "S", "h", "o", "w", ".", "S", "0", "1", "E", "0", "3", ".",
        "e", "n", ".", "s", "r", "t">>,
      \* "m/cover.jpg"
      <<"m", "/", "c", "o", "v", "e", "r", ".", "j", "p", "g">>}}

\* "sk", "sk-0123456789"
ApiKeys == {<<"s", "k">>, <<"s", "k", "-", "0", "1", "2", "3", "4", "5",
  "6", "7", "8", "9">>}

\* what the external service may answer for a file when the call succeeds;
\* None: "unknown", no content, an unparsable answer or a failed call
AiAnswers(filepath) ==
    {None,
     Some(MovieInfo(Foo, None, VideoExtension(filepath), filepath)),
     Some(TvInfo(Foo, Some(1), Some(1), None, VideoExtension(filepath), filepath)),
     Some(TvInfo(Foo, Some(0), Some(1), None, VideoExtension(filepath), filepath))}

\* the applier is not running
WetIdle ==
    /\ content = <<>>
    /\ fsys = <<>>
    /\ fs0 = <<>>
    /\ pc = "idle"
    /\ run = 1
    /\ renames = <<>>
    /\ warnings = 0
    /\ i = 1
    /\ successCount = 0
    /\ errorCount = 0
    /\ outcomes = <<>>
    /\ outcomes1 = <<>>
    /\ ontoExisting = FALSE
    /\ ioFault = FALSE

InitDry ==
    \E fl \in SeqsUpTo(DryFiles, MaxFiles), key \in ApiKeys, d \in DryDisks :
        /\ WetIdle
        /\ CanonIdle
        /\ EvalIdle
        /\ files = fl
        /\ apiKey = key
        /\ disk = d
        /\ dpc = "loop"
        /\ fi = 1
        /\ mediaInfo = None
        /\ dryRenames = <<>>
        /\ consulted = <<>>
        /\ manifest = None

\* let mediaInfo = parseFilename(file)
ParseStatic ==
    /\ dpc = "loop"
    /\ fi <= Len(files)
    /\ mediaInfo' = parseFilename(files[fi])
    /\ consulted' = Append(consulted, [file |-> fi, parser |-> "parseFilename"])
    /\ dpc' = IF parseFilename(files[fi]).some THEN "entries" ELSE "fallback"
    /\ UNCHANGED <<files, apiKey, disk, fi, dryRenames, manifest>>
    /\ UNCHANGED <<wetVars, canonVars, evalVars>>

\* mediaInfo = await parseFilenameWithAI(file, options.apiKey): throws on a
\* malformed key, answers null for every failure of the call
ParseWithAI ==
    /\ dpc = "fallback"
    /\ consulted' = Append(consulted,
                           [file |-> fi, parser |-> "parseFilenameWithAI"])
    /\ IF ~validateApiKey(apiKey)
       THEN /\ dpc' = "thrown"
            /\ UNCHANGED mediaInfo
       ELSE /\ \E answer \in AiAnswers(files[fi]) : mediaInfo' = answer
            /\ dpc' = "entries"
    /\ UNCHANGED <<files, apiKey, disk, fi, dryRenames, manifest>>
    /\ UNCHANGED <<wetVars, canonVars, evalVars>>

\* the entries of the associated files of file, in the order assoc
AssociatedEntries(file, newPath, assoc) ==
    [k \in 1..Len(assoc) |->
        Entry(assoc[k], generateAssociatedFilePath(assoc[k], file, newPath))]

\* the associated entries pushed before the entry of the file itself
EntriesForAssociatedFirst(file, newPath, assoc) ==
    AssociatedEntries(file, newPath, assoc) \o <<Entry(file, newPath)>>

\* renames.push of the file, then renames.push of each associated file
EntriesFor(file, newPath, assoc) ==
    <<Entry(file, newPath)>> \o AssociatedEntries(file, newPath, assoc)

\* the rest of the loop body: the two skips, generateNewPath (outside any
\* try), the entry of the file and those of its associated files, i++
PushRenames ==
    /\ dpc = "entries"
    /\ IF \/ ~mediaInfo.some
          \/ /\ mediaInfo.val.type = "tv"
             /\ (~mediaInfo.val.season.some \/ ~mediaInfo.val.episode.some)
       THEN /\ fi' = fi + 1
            /\ dpc' = "loop"
            /\ UNCHANGED dryRenames
       ELSE LET file == files[fi]
                newPath == generateNewPath(mediaInfo.val, PathDirname(file))
            IN  IF ~newPath.ok
                THEN /\ dpc' = "thrown"
                     /\ UNCHANGED <<fi, dryRenames>>
                ELSE /\ \E assoc \in Orderings(findAssociatedFiles(file, disk)) :
                          dryRenames' =
                              dryRenames \o EntriesFor(file, newPath.path, assoc)
                     /\ fi' = fi + 1
                     /\ dpc' = "loop"
    /\ UNCHANGED <<files, apiKey, disk, mediaInfo, consulted, manifest>>
    /\ UNCHANGED <<wetVars, canonVars, evalVars>>

\* await fs.writeFile('renames.txt', outputLines.join('\n') + '\n')
WriteManifest ==
    /\ dpc = "loop"
    /\ fi > Len(files)
    /\ manifest' = Some(Serialize(dryRenames))
    /\ dpc' = "done"
    /\ UNCHANGED <<files, apiKey, disk, fi, mediaInfo, dryRenames, consulted>>
    /\ UNCHANGED <<wetVars, canonVars, evalVars>>

NextDry == ParseStatic \/ ParseWithAI \/ PushRenames \/ WriteManifest

SpecDry == InitDry /\ [][NextDry]_vars

-----------------------------------------------------------------------------
(* generateNewPath applied to a canonical location *)

Bar == <<"B", "a", "r">>

Mkv == <<".", "m", "k", "v">>
Mp4 == <<".", "m", "p", "4">>
Pilot == <<"P", "i", "l", "o", "t">>

CanonIdentities ==
    {TvInfo(Foo, Some(1), Some(1), None, Mkv, <<>>),
     TvInfo(Foo, Some(12), Some(3), Some(Pilot), Mkv, <<>>),
     TvInfo(Foo, Some(0), Some(1), None, Mkv, <<>>),     \* season 0
     MovieInfo(Foo, Some(2020), Mkv, <<>>),
     MovieInfo(Foo, None, Mp4, <<>>),
     MovieInfo(Bar, Some(2020), Mkv, <<>>)}

CanonDirs ==
    \* ".", "m", "m/Foo"
    {<<".">>, <<"m">>, <<"m", "/", "F", "o", "o">>,
     \* "m/Foo/Season 01"
     <<"m", "/", "F", "o", "o", "/", "S", "e", "a", "s", "o", "n", " ", "0",
       "1">>,
     \* "m/dl/dl"
     <<"m", "/", "d", "l", "/", "d", "l">>,
     \* "m/Bar 2020/Bar.2020/Bar"
     <<"m", "/", "B", "a", "r", " ", "2", "0", "2", "0", "/", "B", "a", "r",
       ".", "2", "0", "2", "0", "/", "B", "a", "r">>,
     \* "m/Foo/Foo (2020)"
     <<"m", "/", "F", "o", "o", "/", "F", "o", "o", " ", "(", "2", "0", "2",
       "0", ")">>,
     \* "/media/Foo/Foo/Season 01"
     <<"/", "m", "e", "d", "i", "a", "/", "F", "o", "o", "/", "F", "o", "o",
       "/", "S", "e", "a", "s", "o", "n", " ", "0", "1">>,
     <<"/">>,
     \* "/m/Foo (2020)"
     <<"/", "m", "/", "F", "o", "o", " ", "(", "2", "0", "2", "0", ")">>}

InitCanon ==
    \E id \in CanonIdentities, d \in CanonDirs :
        /\ WetIdle
        /\ DryIdle
        /\ EvalIdle
        /\ cpc = "input"
        /\ cInfo = Some(id)
        /\ cDir = d
        /\ cPath = <<>>
        /\ cAgain = <<>>

\* p = generateNewPath(identity, dir)
Canonicalize ==
    /\ cpc = "input"
    /\ LET r == generateNewPath(cInfo.val, cDir)
       IN  /\ cpc' = IF r.ok THEN "once" ELSE "thrown"
           /\ cPath' = r.path
    /\ UNCHANGED <<cInfo, cDir, cAgain>>
    /\ UNCHANGED <<wetVars, dryVars, evalVars>>

\* generateNewPath(identity, dirname(p))
Recanonicalize ==
    /\ cpc = "once"
    /\ LET r == generateNewPath(cInfo.val, PathDirname(cPath))
       IN  /\ cpc' = IF r.ok THEN "twice" ELSE "thrown"
           /\ cAgain' = r.path
    /\ UNCHANGED <<cInfo, cDir, cPath>>
    /\ UNCHANGED <<wetVars, dryVars, evalVars>>

NextCanon == Canonicalize \/ Recanonicalize

SpecCanon == InitCanon /\ [][NextCanon]_vars

-----------------------------------------------------------------------------
(* Claims about the builder *)

\* C6: with a well-formed credential no outcome of a file throws out of the
\* loop of runDryMode, and the run ends with every file processed and the
\* manifest written.
C6_AlwaysSerializes ==
    validateApiKey(apiKey) =>
        /\ dpc # "thrown"
        /\ dpc = "done" => (manifest.some /\ fi = Len(files) + 1)

\* C7: for each file the parsers are consulted in the order static parser,
\* folder-context parser, external fallback: the static parser comes first,
\* and the fallback is only called after the folder-context parser was.
C7_ParserOrder ==
    \A k \in 1..Len(consulted) :
        /\ consulted[k].parser = "parseFilename"
             => \A j \in 1..(k - 1) : consulted[j].file # consulted[k].file
        /\ consulted[k].parser = "parseFilenameWithAI"
             => \E j \in 1..(k - 1) :
                   consulted[j] = [file |-> consulted[k].file,
                                   parser |-> "parseFromFolderContext"]

\* C9: every entry the builder emits has a source and a destination that are
\* both absolute or both relative.
C9_AbsoluteStaysAbsolute ==
    \A k \in 1..Len(dryRenames) :
        IsAbsolute(dryRenames[k].from) <=> IsAbsolute(dryRenames[k].to)

\* C10: no entry the builder emits has a destination equal to its source.
C10_SourceDiffers ==
    \A k \in 1..Len(dryRenames) : dryRenames[k].from # dryRenames[k].to

-----------------------------------------------------------------------------
(* Claims about canonicalization *)

\* C8: generateNewPath is idempotent: with p = generateNewPath(identity, dir),
\* generateNewPath(identity, dirname(p)) equals p.
C8_Idempotent == cpc = "twice" => cAgain = cPath

-----------------------------------------------------------------------------
(* The folder-context parser (parseFromFolderContext) *)

\* where a greedy \s* from k ends
SkipSpaces(s, k) ==
    Least({j \in k..(Len(s) + 1) : j = Len(s) + 1 \/ ~IsSpace(s[j])})

\* parseInt(seasonMatch[1], 10) for a part that matches /^Season\s+(\d+)$/i
SeasonNumber(part) == ParseInt(SubSeq(part, SkipSpaces(part, 7), Len(part)))

\* (\d{1,2})(?:[\s._-]|$) at position d: the digits, or the empty string
EpisodeDigitsAt(s, d) ==
    IF /\ d + 1 <= Len(s)
       /\ IsDigit(s[d])
       /\ IsDigit(s[d + 1])
       /\ (d + 2 = Len(s) + 1 \/ IsSep(s[d + 2]))
    THEN SubSeq(s, d, d + 1)
    ELSE IF /\ d <= Len(s)
            /\ IsDigit(s[d])
            /\ (d + 1 = Len(s) + 1 \/ IsSep(s[d + 1]))
    THEN <<s[d]>>
    ELSE <<>>

\* the alternatives of (?:e|ep|episode)?
EpisodeWords ==
    {<<>>, <<"e">>, <<"e", "p">>, <<"e", "p", "i", "s", "o", "d", "e">>}

\* (?:e|ep|episode)?\s*(\d{1,2})(?:[\s._-]|$) at position q, case-insensitively:
\* the digits matched (at most one alternative can match)
SimpleEpisodeAt(s, q) ==
    {EpisodeDigitsAt(s, SkipSpaces(s, q + Len(w))) :
        w \in {v \in EpisodeWords :
                 /\ q + Len(v) - 1 <= Len(s)
                 /\ ToLowerCase(SubSeq(s, q, q + Len(v) - 1)) = v}} \ {<<>>}

\* the positions after (?:^|[\s._-]) from which the rest of the pattern matches;
\* the search takes the leftmost
SimpleEpisodeStarts(s) ==
    {q \in 1..(Len(s) + 1) :
        (q = 1 \/ IsSep(s[q - 1])) /\ SimpleEpisodeAt(s, q) # {}}

\* the result from the pattern /^[Ss](\d{1,2})[Ee](\d{1,2})...$/i on the name
EpisodeOnlyResult(groups, showFolder, extension, filepath) ==
    Some(TvInfo(showFolder,
                Some(ParseInt(groups.season)),
                Some(ParseInt(groups.episode)),
                IF groups.episodeTitle.some
                THEN Some(cleanTitle(groups.episodeTitle.val)) ELSE None,
                extension, filepath))

\* the result for a file below the show folder `showFolder` and a season folder
SeasonFolderResult(name, showFolder, seasonNum, starts, extension, filepath) ==
    IF EpisodeMarkerAt(name, 1)
    THEN EpisodeOnlyResult(TvGroups(name, 0, 1, SeasonDigitsAt(name, 1)),
                           showFolder, extension, filepath)
    ELSE IF starts # {}
    THEN Some(TvInfo(showFolder, Some(seasonNum),
                     Some(ParseInt(CHOOSE d \in SimpleEpisodeAt(name, Least(starts)) : TRUE)),
                     None, extension, filepath))
    ELSE None

\* /^(.+?)\s*\((\d{4})\)$/
IsParenYearFolder(part) ==
    Len(part) >= 7 /\ ParenYearAt(part, Len(part) - 5)

\* group 1 of that pattern, trimmed: (.+?) takes at least one character
ParenYearFolderTitle(part) ==
    Trim(SubSeq(part, 1,
                IF TrimEnd(SubSeq(part, 1, Len(part) - 6)) = <<>> THEN 1
                ELSE Len(TrimEnd(SubSeq(part, 1, Len(part) - 6)))))

\* /^(.+?)[\s._-]+(\d{4})$/
IsBareYearFolder(part) ==
    /\ Len(part) >= 6
    /\ FourDigitsAt(part, Len(part) - 3)
    /\ IsSep(part[Len(part) - 4])

\* the lengths (.+?) can take in that pattern
BareYearFolderLengths(part) ==
    {l \in 1..(Len(part) - 5) : \A j \in (l + 1)..(Len(part) - 4) : IsSep(part[j])}

YearInRange(yearNum) == yearNum >= 1900 /\ yearNum <= currentYear + 3

\* the folders of the second loop that give a movie
IsMovieFolder(part) ==
    \/ /\ IsParenYearFolder(part)
       /\ YearInRange(ParseInt(SubSeq(part, Len(part) - 4, Len(part) - 1)))
    \/ /\ ~IsSeasonFolder(part)
       /\ IsBareYearFolder(part)
       /\ YearInRange(ParseInt(SubSeq(part, Len(part) - 3, Len(part))))

MovieFolderResult(part, extension, filepath) ==
    IF IsParenYearFolder(part)
    THEN Some(MovieInfo(ParenYearFolderTitle(part),
                        Some(ParseInt(SubSeq(part, Len(part) - 4, Len(part) - 1))),
                        extension, filepath))
    ELSE Some(MovieInfo(cleanTitle(SubSeq(part, 1, Least(BareYearFolderLengths(part)))),
                        Some(ParseInt(SubSeq(part, Len(part) - 3, Len(part)))),
                        extension, filepath))

\* the two loops over the folders, from the innermost outwards; positions are
\* 1-based: parts[k] is the source's parts[k - 1]
FolderContext(parts, name, seasons, movies, extension, filepath) ==
    IF seasons # {}
    THEN SeasonFolderResult(name, parts[Greatest(seasons) - 1],
                            SeasonNumber(parts[Greatest(seasons)]),
                            SimpleEpisodeStarts(name), extension, filepath)
    ELSE IF movies # {}
    THEN MovieFolderResult(parts[Greatest(movies)], extension, filepath)
    ELSE None

\* the season folders of the first loop that have a show folder above them
SeasonFolders(parts) ==
    {k \in 2..(Len(parts) - 1) :
        IsSeasonFolder(parts[k]) /\ ~IsSeasonFolder(parts[k - 1])}

MovieFolders(parts) == {k \in 1..(Len(parts) - 1) : IsMovieFolder(parts[k])}

FolderContextOf(parts, filepath) ==
    FolderContext(parts, NameWithoutExt(filepath), SeasonFolders(parts),
                  MovieFolders(parts), VideoExtension(filepath), filepath)

parseFromFolderContext(filepath) ==
    FolderContextOf(Split(filepath, Slash), filepath)

-----------------------------------------------------------------------------
(* The parsers and the file-name generators applied to a path *)

\* "Movie.<y>.mkv"
MovieNamed(y) == <<"M", "o", "v", "i", "e", ".">> \o NumberToString(y) \o Mkv

\* the years around the two ends of the accepted range
YearsTried == (1895..1905) \cup (currentYear..(currentYear + 8))

\* tv names that end in a release tag, with and without an episode title
TaggedInputs ==
     \* "Show.S01E01.1080p.mkv"
    {<<"S", "h", "o", "w", ".", "S", "0", "1", "E", "0", "1", ".", "1", "0",
      "8", "0", "p", ".", "m", "k", "v">>,
     \* "Show.S01E01.Pilot.1080p.WEB.mkv"
     <<"S", "h", "o", "w", ".", "S", "0", "1", "E", "0", "1", ".", "P", "i",
       "l", "o", "t", ".", "1", "0", "8", "0", "p", ".", "W", "E", "B", ".",
       "m", "k", "v">>,
     \* "Show.S01E02.Title.HDTV-x264.mkv"
     <<"S", "h", "o", "w", ".", "S", "0", "1", "E", "0", "2", ".", "T", "i",
       "t", "l", "e", ".", "H", "D", "T", "V", "-", "x", "2", "6", "4", ".",
       "m", "k", "v">>,
     \* "Show S1E2 720p.mp4"
     <<"S", "h", "o", "w", " ", "S", "1", "E", "2", " ", "7", "2", "0", "p",
       ".", "m", "p", "4">>,
     \* "Show.S02E03.The.One.BluRay.mkv"
     <<"S", "h", "o", "w", ".", "S", "0", "2", "E", "0", "3", ".", "T", "h",
       "e", ".", "O", "n", "e", ".", "B", "l", "u", "R", "a", "y", ".", "m",
       "k", "v">>,
     \* "show_s02e04_amzn.mkv"
     <<"s", "h", "o", "w", "_", "s", "0", "2", "e", "0", "4", "_", "a", "m",
       "z", "n", ".", "m", "k", "v">>}

ParseInputs ==
    {MovieNamed(y) : y \in YearsTried} \cup TaggedInputs \cup
     \* "Show.S00E01.mkv"
    {<<"S", "h", "o", "w", ".", "S", "0", "0", "E", "0", "1", ".", "m", "k",
      "v">>,
     \* "Show.S03E12.mkv"
     <<"S", "h", "o", "w", ".", "S", "0", "3", "E", "1", "2", ".", "m", "k",
       "v">>,
     \* "Show.S3E7.Pilot.mkv"
     <<"S", "h", "o", "w", ".", "S", "3", "E", "7", ".", "P", "i", "l", "o",
       "t", ".", "m", "k", "v">>,
     \* "The.Movie.(2020).mkv"
     <<"T", "h", "e", ".", "M", "o", "v", "i", "e", ".", "(", "2", "0", "2",
       "0", ")", ".", "m", "k", "v">>,
     \* "m/Movie 2020 1080p.mkv"
     <<"m", "/", "M", "o", "v", "i", "e", " ", "2", "0", "2", "0", " ", "1",
       "0", "8", "0", "p", ".", "m", "k", "v">>,
     <<"n", "o", "t", "e", "s">>,
     \* "/Foo/Season 01/x.mkv"
     <<"/", "F", "o", "o", "/", "S", "e", "a", "s", "o", "n", " ", "0", "1",
       "/", "x", ".", "m", "k", "v">>,
     \* "/Foo/Season 01/S01E03.mkv"
     <<"/", "F", "o", "o", "/", "S", "e", "a", "s", "o", "n", " ", "0", "1",
       "/", "S", "0", "1", "E", "0", "3", ".", "m", "k", "v">>,
     \* "Foo/Season 1/ep 3.mkv"
     <<"F", "o", "o", "/", "S", "e", "a", "s", "o", "n", " ", "1", "/", "e",
       "p", " ", "3", ".", "m", "k", "v">>,
     \* "Foo/Season 3/Episode 10 - Title.mkv"
     <<"F", "o", "o", "/", "S", "e", "a", "s", "o", "n", " ", "3", "/", "E",
       "p", "i", "s", "o", "d", "e", " ", "1", "0", " ", "-", " ", "T", "i",
       "t", "l", "e", ".", "m", "k", "v">>,
     \* "Foo/Season 100/episode05.mkv"
     <<"F", "o", "o", "/", "S", "e", "a", "s", "o", "n", " ", "1", "0", "0",
       "/", "e", "p", "i", "s", "o", "d", "e", "0", "5", ".", "m", "k", "v">>,
     \* "Foo/Season 0/E00.mkv"
     <<"F", "o", "o", "/", "S", "e", "a", "s", "o", "n", " ", "0", "/", "E",
       "0", "0", ".", "m", "k", "v">>,
     \* "/media/Movie Name (2021)/movie.mkv"
     <<"/", "m", "e", "d", "i", "a", "/", "M", "o", "v", "i", "e", " ", "N",
       "a", "m", "e", " ", "(", "2", "0", "2", "1", ")", "/", "m", "o", "v",
       "i", "e", ".", "m", "k", "v">>,
     \* "m/Movie.2020/x.mkv"
     <<"m", "/", "M", "o", "v", "i", "e", ".", "2", "0", "2", "0", "/", "x",
       ".", "m", "k", "v">>}

InitParse ==
    \E filepath \in ParseInputs :
        /\ WetIdle
        /\ DryIdle
        /\ CanonIdle
        /\ epc = "input"
        /\ eIn = filepath
        /\ eOut = <<>>

\* parseFilename(filepath)
ApplyParseFilename ==
    /\ epc = "input"
    /\ epc' = "parseFilename"
    /\ eOut' = <<parseFilename(eIn)>>
    /\ UNCHANGED eIn
    /\ UNCHANGED <<wetVars, dryVars, canonVars>>

\* parseFromFolderContext(filepath)
ApplyParseFromFolderContext ==
    /\ epc = "input"
    /\ epc' = "parseFromFolderContext"
    /\ eOut' = <<parseFromFolderContext(eIn)>>
    /\ UNCHANGED eIn
    /\ UNCHANGED <<wetVars, dryVars, canonVars>>

\* generateTVFilename or generateMovieFilename on the identity found, as
\* generateNewPath chooses between them
ApplyGenerateFilename ==
    /\ epc \in {"parseFilename", "parseFromFolderContext"}
    /\ Len(eOut) = 1
    /\ eOut[1].some
    /\ eOut' = Append(eOut, IF eOut[1].val.type = "tv"
                            THEN generateTVFilename(eOut[1].val)
                            ELSE generateMovieFilename(eOut[1].val))
    /\ UNCHANGED <<epc, eIn>>
    /\ UNCHANGED <<wetVars, dryVars, canonVars>>

NextParse ==
    ApplyParseFilename \/ ApplyParseFromFolderContext \/ ApplyGenerateFilename

SpecParse == InitParse /\ [][NextParse]_vars

-----------------------------------------------------------------------------
(* Claims about the parsers and the file-name generators *)

\* C11: every identity parseFilename or parseFromFolderContext returns has
\* season and episode exactly when it is a tv identity, both at least 1, and a
\* year only when it is a movie.
C11_DataModel ==
    (Len(eOut) >= 1 /\ eOut[1].some) =>
        /\ eOut[1].val.season.some <=> eOut[1].val.type = "tv"
        /\ eOut[1].val.episode.some <=> eOut[1].val.type = "tv"
        /\ eOut[1].val.season.some => eOut[1].val.season.val >= 1
        /\ eOut[1].val.episode.some => eOut[1].val.episode.val >= 1
        /\ eOut[1].val.year.some => eOut[1].val.type = "movie"

\* s holds, from position k on, exactly two digits that read n, and no third
TwoDigitsAt(s, k, n) ==
    /\ k + 1 <= Len(s)
    /\ IsDigit(s[k])
    /\ IsDigit(s[k + 1])
    /\ ParseInt(SubSeq(s, k, k + 1)) = n
    /\ (k + 2 <= Len(s) => ~IsDigit(s[k + 2]))

\* the path is .../Season NN/<title> - SNNEMM... for season n and episode m
RendersTwoDigits(path, title, n, m) ==
    LET parts == Split(path, Slash)
        dir == parts[Len(parts) - 1]
        file == parts[Len(parts)]
    IN  /\ Len(parts) >= 2
        /\ StartsWith(dir, <<"S", "e", "a", "s", "o", "n", " ">>)
        /\ TwoDigitsAt(dir, 8, n)
        /\ StartsWith(file, title \o <<" ", "-", " ", "S">>)
        /\ TwoDigitsAt(file, Len(title) + 5, n)
        /\ Len(file) >= Len(title) + 7
        /\ file[Len(title) + 7] = "E"
        /\ TwoDigitsAt(file, Len(title) + 8, m)

\* C12: for every tv identity with season and episode at least 1, whatever
\* parser produced it, generateTVFilename renders both numbers as exactly two
\* digits in the Season directory and in the SNNENN token.
C12_TwoDigits ==
    (/\ Len(eOut) = 2
     /\ eOut[1].val.type = "tv"
     /\ Truthy(eOut[1].val.season)
     /\ Truthy(eOut[1].val.episode)) =>
        /\ eOut[2].ok
        /\ RendersTwoDigits(eOut[2].path, eOut[1].val.title,
                            eOut[1].val.season.val, eOut[1].val.episode.val)

\* C13: on a name "Movie.<y>.mkv", where only the bare-year pattern applies,
\* parseFilename returns the movie Movie of year y exactly when
\* 1900 <= y <= currentYear + 3, and nothing otherwise.
C13_YearBounds ==
    epc = "parseFilename" =>
        \A y \in YearsTried :
            eIn = MovieNamed(y) =>
                eOut[1] = IF 1900 <= y /\ y <= currentYear + 3
                          THEN Some(MovieInfo(<<"M", "o", "v", "i",
                            "e">>, Some(y), Mkv, eIn))
                          ELSE None

\* the last accepted year, accepted
C13_Witness ==
    /\ epc = "parseFilename"
    /\ eIn = MovieNamed(currentYear + 3)
    /\ eOut[1].some
    /\ eOut[1].val.year = Some(currentYear + 3)

\* a release tag occurs in s, in any case
ContainsTag(s) ==
    \E t \in ReleaseTags, k \in 1..Len(s) :
        /\ k + Len(t) - 1 <= Len(s)
        /\ ToLowerCase(SubSeq(s, k, k + Len(t) - 1)) = ToLowerCase(t)

\* C15: for a tv name that ends in a release tag, with or without an episode
\* title before it, the tag is neither in the parsed episode title nor in the
\* generated file name.
C15_TagDiscarded ==
    (epc = "parseFilename" /\ eIn \in TaggedInputs) =>
        /\ eOut[1].some
        /\ eOut[1].val.episodeTitle.some
             => ~ContainsTag(eOut[1].val.episodeTitle.val)
        /\ Len(eOut) = 2 => (eOut[2].ok /\ ~ContainsTag(eOut[2].path))

-----------------------------------------------------------------------------
(* cleanTitle applied to a title, and to its own result *)

MaxTitleLen == 3

TitleChars == {"a", " ", "-", "."}

\* the titles of at most MaxTitleLen characters, and the one of the documentation
Titles ==
    UNION {[1..n -> TitleChars] : n \in 0..MaxTitleLen} \cup {<<"f", "o",
      "o", " ", "-", " ", "b", "a", "r">>}

InitClean ==
    /\ WetIdle
    /\ DryIdle
    /\ CanonIdle
    /\ epc = "input"
    /\ eIn \in Titles
    /\ eOut = <<>>

ApplyCleanTitle ==
    /\ epc = "input"
    /\ epc' = "cleanTitle"
    /\ eOut' = <<cleanTitle(eIn)>>
    /\ UNCHANGED <<eIn, wetVars, dryVars, canonVars>>

ApplyCleanTitleAgain ==
    /\ epc = "cleanTitle"
    /\ epc' = "cleanTitleAgain"
    /\ eOut' = Append(eOut, cleanTitle(eOut[1]))
    /\ UNCHANGED <<eIn, wetVars, dryVars, canonVars>>

NextClean ==
    \/ ApplyCleanTitle
    \/ ApplyCleanTitleAgain

SpecClean == InitClean /\ [][NextClean]_vars

\* C14: cleanTitle is idempotent: applied to its own result it returns that
\* result, also for a hyphen between spaces.
C14_Idempotent ==
    epc = "cleanTitleAgain" => eOut[2] = eOut[1]

-----------------------------------------------------------------------------
(* Claims about the builder's entries *)

\* the entry at position k is the entry of an input file
IsPrimaryEntry(k) == \E n \in 1..Len(files) : files[n] = dryRenames[k].from

\* the entry of the input file whose associated file has the entry at j
PrimaryOf(j) == dryRenames[Greatest({k \in 1..j : IsPrimaryEntry(k)})]

\* the base name of a path: its last segment without the extension
BaseNameOf(p) ==
    SubSeq(PathBasename(p), 1,
           Len(PathBasename(p)) - Len(PathExtname(PathBasename(p))))

\* C16: an associated file named B+s, where B is the base name of its primary
\* file, gets the destination D/N+s, where D and N are the directory and the
\* base name of the primary file's destination.
C16_AssociatedDestination ==
    \A j \in 1..Len(dryRenames) :
        (~IsPrimaryEntry(j)
         /\ StartsWith(PathBasename(dryRenames[j].from),
                       BaseNameOf(PrimaryOf(j).from))) =>
            dryRenames[j].to =
                PathJoin(PathDirname(PrimaryOf(j).to),
                         BaseNameOf(PrimaryOf(j).to)
                         \o SliceFrom(PathBasename(dryRenames[j].from),
                                      Len(BaseNameOf(PrimaryOf(j).from))))

\* C17: with a malformed credential no file is parsed and no entry is
\* accumulated, at any point of the run.
C17_AbortsBeforeProcessing ==
    ~validateApiKey(apiKey) =>
        /\ \A k \in 1..Len(consulted) : consulted[k].parser # "parseFilename"
        /\ dryRenames = <<>>

\* the sources written in a manifest, in its order
ManifestSources(text) ==
    LET Signed(line) == StartsWith(line, <<"-">>)
        lines == SelectSeq(Split(text, "\n"), Signed)
    IN  [k \in 1..Len(lines) |-> SliceFrom(lines[k], 1)]

\* the sources froms, from position pos on, are those of the files k..Len(files)
\* in order, each file either absent or followed at once by all its associated
\* files
RECURSIVE Interleaved(_, _, _)
Interleaved(froms, pos, k) ==
    IF k > Len(files) THEN pos = Len(froms) + 1
    ELSE \/ Interleaved(froms, pos, k + 1)
         \/ LET assoc == findAssociatedFiles(files[k], disk)
                n == Cardinality(assoc)
            IN  /\ pos + n <= Len(froms)
                /\ froms[pos] = files[k]
                /\ {froms[q] : q \in (pos + 1)..(pos + n)} = assoc
                /\ Interleaved(froms, pos + n + 1, k + 1)

\* the file whose identity is info is skipped
SkipsFile(info) ==
    \/ ~info.some
    \/ /\ info.val.type = "tv"
       /\ (~info.val.season.some \/ ~info.val.episode.some)

\* C18: the manifest lists the input files in discovery order, each followed at
\* once by its associated files and before the next input file; a skipped file
\* adds no entry, for itself or for its associated files.
C18_ManifestOrder ==
    /\ [](manifest.some => Interleaved(ManifestSources(manifest.val), 1, 1))
    /\ [][(dpc = "entries" /\ SkipsFile(mediaInfo))
             => dryRenames' = dryRenames]_vars

\* a manifest written after the first of two files was skipped and the second
\* brought two associated files
C18_Witness ==
    /\ manifest.some
    /\ Len(files) = 2
    /\ Len(dryRenames) = 3
    /\ dryRenames[1].from = files[2]
    /\ ~IsPrimaryEntry(2)
    /\ ~IsPrimaryEntry(3)

-----------------------------------------------------------------------------
(* The manifest written by the builder, read back by the applier *)

MaxRoundTrip == 2

\* non-blank paths without a line break: plain, with a leading or a trailing
\* space, with an inner space, and starting with either sign
RoundTripPaths == {<<"a">>, <<" ", "a">>, <<"b", " ">>, <<"a", " ",
  "b">>, <<"-", "a">>, <<"+", "b">>}

RoundTripEntries == {Entry(f, t) : f \in RoundTripPaths, t \in RoundTripPaths}

InitRoundTrip ==
    /\ WetIdle
    /\ DryIdle
    /\ CanonIdle
    /\ epc = "input"
    /\ eIn \in SeqsUpTo(RoundTripEntries, MaxRoundTrip)
    /\ eOut = <<>>

\* the end of runDryMode: the text written to renames.txt
ApplySerialize ==
    /\ epc = "input"
    /\ epc' = "serialized"
    /\ eOut' = <<Serialize(eIn)>>
    /\ UNCHANGED <<eIn, wetVars, dryVars, canonVars>>

\* parseRenamesFile on that text
ApplyParseRenamesFile ==
    /\ epc = "serialized"
    /\ epc' = "parseRenamesFile"
    /\ eOut' = Append(eOut, ParseRenamesFile(eOut[1]))
    /\ UNCHANGED <<eIn, wetVars, dryVars, canonVars>>

NextRoundTrip ==
    \/ ApplySerialize
    \/ ApplyParseRenamesFile

SpecRoundTrip == InitRoundTrip /\ [][NextRoundTrip]_vars

\* C19: for entries with non-blank paths without line breaks, parseRenamesFile
\* on the serialized text returns the same entries in the same order.
C19_RoundTrip ==
    epc = "parseRenamesFile" => eOut[2].renames = eIn

\* two entries read back, the first from a path with a leading space to a path
\* starting with a sign
C19_Witness ==
    /\ epc = "parseRenamesFile"
    /\ Len(eIn) = 2
    /\ eIn[1] = Entry(<<" ", "a">>, <<"-", "a">>)
    /\ eOut[2].renames = eIn

-----------------------------------------------------------------------------
(* Claims about the canonical path *)

\* two segments next to each other in path are similar
AdjacentSimilar(path) ==
    LET parts == Split(path, Slash)
    IN  \E k \in 1..(Len(parts) - 1) : isSimilar(parts[k], parts[k + 1])

\* C20: the path generateNewPath returns never has two adjacent segments that
\* are similar; from /media/Foo/Foo/Season 01 and title Foo it has one Foo.
C20_NoAdjacentSimilar ==
    cpc \in {"once", "twice"} =>
        /\ ~AdjacentSimilar(cPath)
        /\ cpc = "twice" => ~AdjacentSimilar(cAgain)

-----------------------------------------------------------------------------
(* fixDoubleNesting applied to a path *)

MaxSegments == 3

FixSegments ==
    {<<"m">>, <<"F", "o", "o">>, <<"f", "o", "o">>, <<"F", "o", "o", " ",
      "(", "2", "0", "2", "0", ")">>, <<"F", "o", "o", " ", "2", "0", "2",
      "0">>, <<"S", "e", "a", "s", "o", "n", " ", "0", "1">>}

\* the relative paths of 1..MaxSegments segments
FixPaths ==
    {Join(p, Slash) : p \in SeqsUpTo(FixSegments, MaxSegments) \ {<<>>}}

InitFix ==
    /\ WetIdle
    /\ DryIdle
    /\ CanonIdle
    /\ epc = "input"
    /\ eIn \in FixPaths
    /\ eOut = <<>>

ApplyFixDoubleNesting ==
    /\ epc = "input"
    /\ epc' = "fixDoubleNesting"
    /\ eOut' = <<fixDoubleNesting(eIn)>>
    /\ UNCHANGED <<eIn, wetVars, dryVars, canonVars>>

NextFix == ApplyFixDoubleNesting

SpecFix == InitFix /\ [][NextFix]_vars

\* b is a followed by " (" four digits ")"
IsYearVariant(a, b) ==
    /\ Len(b) = Len(a) + 7
    /\ SubSeq(b, 1, Len(a)) = a
    /\ SubSeq(b, Len(a) + 1, Len(a) + 2) = <<" ", "(">>
    /\ FourDigitsAt(b, Len(a) + 3)
    /\ b[Len(b)] = ")"

\* C21: where Title is immediately followed by Title (Year), fixDoubleNesting
\* keeps Title (Year) and drops Title: Title/Title (Year) gives Title (Year).
C21_KeepsMoreComplete ==
    epc = "fixDoubleNesting" =>
        LET parts == Split(eIn, Slash)
            kept == Split(eOut[1], Slash)
        IN  \A k \in 1..(Len(parts) - 1) :
                IsYearVariant(parts[k], parts[k + 1]) =>
                    /\ \E j \in 1..Len(kept) : kept[j] = parts[k + 1]
                    /\ Len(parts) = 2 => eOut[1] = parts[2]

-----------------------------------------------------------------------------
(* findMediaRoot applied to an identity and a directory *)

\* the directories of the canonicalization, and two that start with the show
RootDirs ==
    CanonDirs \cup {<<"F", "o", "o">>, <<"F", "o", "o", "/", "S", "e", "a",
      "s", "o", "n", " ", "0", "1">>, <<"m", "/", "F", "o", "o", "/", "S",
      "e", "a", "s", "o", "n", " ", "0", "1", "/", "F", "o", "o">>}

InitRoot ==
    \E id \in CanonIdentities, d \in RootDirs :
        /\ WetIdle
        /\ DryIdle
        /\ CanonIdle
        /\ epc = "input"
        /\ eIn = [info |-> id, originalDir |-> d]
        /\ eOut = <<>>

ApplyFindMediaRoot ==
    /\ epc = "input"
    /\ epc' = "findMediaRoot"
    /\ eOut' = <<findMediaRoot(eIn.originalDir, eIn.info)>>
    /\ UNCHANGED <<eIn, wetVars, dryVars, canonVars>>

NextRoot == ApplyFindMediaRoot

SpecRoot == InitRoot /\ [][NextRoot]_vars

\* the name of the movie's folder: Title (Year), or Title without a year
MovieFolderName(info) ==
    IF Truthy(info.year)
    THEN info.title \o <<" ", "(">> \o NumberToString(info.year.val) \o <<")">>
    ELSE info.title

\* the positions of the segments of parts that represent the item
ItemSegments(parts, info) ==
    {k \in 1..Len(parts) :
        \/ isSimilar(parts[k], info.title)
        \/ info.type = "movie" /\ isSimilar(parts[k], MovieFolderName(info))}

\* C22: findMediaRoot returns the path made of the segments strictly above the
\* deepest segment that represents the item, and the original directory when
\* no segment does.
C22_ParentOfDeepestMatch ==
    epc = "findMediaRoot" =>
        LET parts == Split(eIn.originalDir, Slash)
            hits == ItemSegments(parts, eIn.info)
        IN  eOut[1] = IF hits = {} THEN eIn.originalDir
                      ELSE Join(SubSeq(parts, 1, Greatest(hits) - 1), Slash)

-----------------------------------------------------------------------------
(* The applier next to another actor on the same filesystem *)

\* another process creates a regular file at the destination of an entry of
\* the manifest, at any moment of the run at which the path is free
OtherActorCreates ==
    /\ pc \in {"accessFrom", "ensureDir", "accessTo", "rename"}
    /\ "other" \notin Contents(fsys)
    /\ \E k \in 1..Len(renames) :
          /\ ~Exists(fsys, renames[k].to)
          /\ IsDir(fsys, PathDirname(renames[k].to))
          /\ fsys' = Merge(fsys, (renames[k].to :> "other"))
    /\ UNCHANGED <<content, fs0, pc, run, renames, warnings, i, successCount,
                   errorCount, outcomes, outcomes1, ontoExisting, ioFault>>
    /\ UNCHANGED <<dryVars, canonVars, evalVars>>

NextConcurrent == NextWet \/ OtherActorCreates

SpecConcurrent == InitWet /\ [][NextConcurrent]_vars

\* C23: in every interleaving of the applier's steps with another actor's file
\* creation, no move lands on an existing destination and no step makes a file
\* disappear.
C23_NoClobberInterleaved ==
    [][/\ ~ontoExisting'
       /\ Contents(fsys) \subseteq Contents(fsys')]_vars

\* C24: an entry whose source does not exist ends at the source check with the
\* filesystem unchanged; the filesystem changes only after the source check
\* passed; a directory creation that changes the filesystem is never followed
\* by the skip for an existing destination, and that skip changes nothing.
C24_SkipsLeaveFilesystem ==
    /\ [][(pc = "accessFrom" /\ ~Exists(fsys, renames[i].from))
             => (fsys' = fsys /\ i' = i + 1)]_vars
    /\ [][fsys' # fsys
             => (pc \in {"ensureDir",
               "rename"} /\ Exists(fsys, renames[i].from))]_vars
    /\ [][(pc = "ensureDir" /\ fsys' # fsys)
             => (pc' = "accessTo" /\ ~Exists(fsys', renames[i].to))]_vars
    /\ [][pc = "accessTo" => fsys' = fsys]_vars

\* a run that skipped one entry for its missing source and one for its
\* existing destination, and left the filesystem as it was
C24_Witness ==
    /\ pc = "done"
    /\ run = 1
    /\ Len(outcomes) = 2
    /\ ~Exists(fs0, renames[1].from)
    /\ outcomes[1].report = "error"
    /\ outcomes[2].report = "skipping"
    /\ fsys = fs0

=============================================================================
